---- MODULE Spec2Model ----
(***************************************************************************)
(* A model of rust-hexcat: the Input state machine, the Message store and  *)
(* its painter (src/src/sections.rs), the reader threads started by        *)
(* spawn_threads (src/src/main.rs) and the Window event loop               *)
(* (src/src/window.rs).                                                    *)
(*                                                                         *)
(* Characters are one-character strings; the box-drawing characters are    *)
(* named ("BOX_V" is U+2502, "BOX_H" is U+2500, "BOX_T" is U+252C,         *)
(* "BOX_X" is U+253C) because their UTF-8 length (3 bytes) differs from    *)
(* their length in characters (1), and str::len counts bytes.              *)
(***************************************************************************)
EXTENDS Integers, Sequences, FiniteSets, TLC

(***************************************************************************)
(* Bounds of the model.                                                    *)
(***************************************************************************)
\* longest input buffer the keyboard is allowed to build
MaxInput == 4
\* most messages the store is allowed to hold
MaxMessages == 3
\* most successful socket reads of the Connection Reader / remote_input
MaxReads == 2
\* most key events delivered to an event loop
MaxKeys == 1
\* most positional arguments on the command line
MaxArgs == 3
\* tallest terminal the start of Window::run is laid out on
MaxHeight == 24

(***************************************************************************)
(* Characters and the hex codec.                                           *)
(***************************************************************************)
DecDigits == {"0", "1", "2", "3", "4", "5", "6", "7", "8", "9"}
LowerHex == {"a", "b", "c", "d", "e", "f"}
UpperHex == {"A", "B", "C", "D", "E", "F"}

\* char::is_ascii_hexdigit
IsAsciiHexdigit(c) == c \in DecDigits \cup LowerHex \cup UpperHex

\* char::is_whitespace, on the characters the keyboard set below can produce
IsWhitespace(c) == c \in {" ", "TAB", "LF"}

\* char::to_digit(16), the digit value u8::from_str_radix gives a character
DigitValue(c) ==
    CASE c = "0" -> 0 [] c = "1" -> 1 [] c = "2" -> 2 [] c = "3" -> 3
      [] c = "4" -> 4 [] c = "5" -> 5 [] c = "6" -> 6 [] c = "7" -> 7
      [] c = "8" -> 8 [] c = "9" -> 9
      [] c \in {"a", "A"} -> 10 [] c \in {"b", "B"} -> 11
      [] c \in {"c", "C"} -> 12 [] c \in {"d", "D"} -> 13
      [] c \in {"e", "E"} -> 14 [] c \in {"f", "F"} -> 15

\* a plausible slip: the pair read low nibble first
FromStrRadix16_LowFirst(s) ==
    IF Len(s) \in 1..2 /\ \A i \in 1..Len(s) : IsAsciiHexdigit(s[i])
    THEN [ok |-> TRUE,
          val |-> IF Len(s) = 1 THEN DigitValue(s[1])
                  ELSE DigitValue(s[1]) + 16 * DigitValue(s[2])]
    ELSE [ok |-> FALSE, val |-> 0]

\* u8::from_str_radix(&hex_string, 16) on a chunk of one or two characters:
\* digits accumulate most significant first; Err on a non-digit
FromStrRadix16(s) ==
    IF Len(s) \in 1..2 /\ \A i \in 1..Len(s) : IsAsciiHexdigit(s[i])
    THEN [ok |-> TRUE,
          val |-> IF Len(s) = 1 THEN DigitValue(s[1])
                  ELSE 16 * DigitValue(s[1]) + DigitValue(s[2])]
    ELSE [ok |-> FALSE, val |-> 0]

\* slice::chunks(2): consecutive pairs, the last chunk shorter when odd
Chunks2(s) ==
    [i \in 1..((Len(s) + 1) \div 2) |->
        IF 2 * i <= Len(s) THEN <<s[2 * i - 1], s[2 * i]>> ELSE <<s[2 * i - 1]>>]

\* Iterator::filter_map(|r| r.ok()) over a sequence of [ok, val] results
RECURSIVE FilterMapOk(_)
FilterMapOk(rs) ==
    IF rs = <<>> THEN <<>>
    ELSE IF Head(rs).ok THEN <<Head(rs).val>> \o FilterMapOk(Tail(rs))
         ELSE FilterMapOk(Tail(rs))

\* format!("{:x}") of one nibble
LowerHexDigit(n) ==
    CASE n = 0 -> "0" [] n = 1 -> "1" [] n = 2 -> "2" [] n = 3 -> "3"
      [] n = 4 -> "4" [] n = 5 -> "5" [] n = 6 -> "6" [] n = 7 -> "7"
      [] n = 8 -> "8" [] n = 9 -> "9" [] n = 10 -> "a" [] n = 11 -> "b"
      [] n = 12 -> "c" [] n = 13 -> "d" [] n = 14 -> "e" [] n = 15 -> "f"

\* concatenation of a sequence of sequences (Vec<String>::join(""))
RECURSIVE Join(_)
Join(ss) == IF ss = <<>> THEN <<>> ELSE Head(ss) \o Join(Tail(ss))

\* Vec::resize(n, fill), String::truncate(n) when n <= len
Resize(s, n, fill) ==
    [i \in 1..n |-> IF i <= Len(s) THEN s[i] ELSE fill]

\* str::len: the length in UTF-8 bytes
Utf8Len(c) == IF c \in {"BOX_V", "BOX_H", "BOX_T", "BOX_X"} THEN 3 ELSE 1

RECURSIVE StrLen(_)
StrLen(s) == IF s = <<>> THEN 0 ELSE Utf8Len(Head(s)) + StrLen(Tail(s))

(***************************************************************************)
(* Key events (termion::event::Key).                                       *)
(***************************************************************************)
Key(kind) == [kind |-> kind, c |-> "NUL"]
CharKey(c) == [kind |-> "Char", c |-> c]
CtrlKey(c) == [kind |-> "Ctrl", c |-> c]

\* the keys the keyboard of the Input harness produces: hex digits of each
\* case, whitespace that is and is not a space, a printable non-digit, the
\* editing keys and a key no handler knows
InputKeys ==
    {CharKey(c) : c \in {"4", "1", "a", "F", " ", "TAB", "g"}}
    \cup {Key(k) : k \in {"Home", "Left", "Right", "End", "Delete",
                          "Backspace", "F1"}}

VARIABLES
    \* sections::Input
    input, cursor_position, scroll_offset,
    \* the last call made on Input: its name, the state before and the result
    input_call,
    \* sections::Messages: the log, and what handle_message did to the connection
    messages, write_count, last_write,
    \* the grid Messages::paint returned, while its caller holds it (until the
    \* next call on the store)
    painted,
    \* a todo!() or an arithmetic overflow has unwound the calling thread
    panicked,
    \* Messages::listen: its position, its local Vec `message`, the payloads of
    \* its successful reads in the order they completed, the outcome of its
    \* latest read, the number and the latest outcome of its sends
    listen_pc, listen_message, reads, last_read, sends, last_send,
    \* the channel from Messages::listen to the event loop
    message_chan,
    \* Input::listen: its position, the keys it has read; and its channel
    key_listen_pc, keys_read, key_chan,
    \* the event loop: its position in the tick, Running or Quitting, the
    \* error it returned with, the dirty flag, and its latest poll of the
    \* message channel
    loop_pc, loop_state, loop_error, dirty, last_poll,
    \* window::Window: its fields, the position of run, what run returned
    should_quit, w_messages, w_user_input, w_scroll_offset, w_pc, w_result,
    \* the keys and the payloads Window has read
    w_keys_read, w_reads,
    \* Terminal: its cursor field, and the regions drawn since the last clear
    term_cursor, screen,
    \* main: the command line (env::args) and what connect came to
    args, connect_result,
    \* the terminal: the size Terminal::size reports while it is not resized,
    \* and the rows each draw routine of Window has printed on
    term_size, rows_drawn

inputVars == <<input, cursor_position, scroll_offset, input_call>>
messageVars == <<messages, write_count, last_write>>
listenVars == <<listen_pc, listen_message, reads, last_read, sends, last_send, message_chan>>
keyListenVars == <<key_listen_pc, keys_read, key_chan>>
loopVars == <<loop_pc, loop_state, loop_error, dirty, last_poll>>
threadVars == <<listenVars, keyListenVars, loopVars>>
windowVars == <<should_quit, w_messages, w_user_input, w_scroll_offset, w_pc,
                w_result, w_keys_read, w_reads, term_cursor, screen>>
startVars == <<args, connect_result>>
layoutVars == <<term_size, rows_drawn>>
vars == <<inputVars, messageVars, painted, panicked, threadVars, windowVars,
          startVars, layoutVars>>

NoBytes == [some |-> FALSE, bytes |-> <<>>]
InputState == [input |-> input, cursor_position |-> cursor_position,
               scroll_offset |-> scroll_offset]

\* Input::new
InputNew ==
    /\ input = <<>>
    /\ cursor_position = 0
    /\ scroll_offset = 0
    /\ input_call = [op |-> "new", key |-> Key("None"),
                     before |-> [input |-> <<>>, cursor_position |-> 0,
                                 scroll_offset |-> 0],
                     ret |-> NoBytes]

HexDigitsOf(s) == SelectSeq(s, IsAsciiHexdigit)

\* a plausible slip: the buffer is cleared but the cursor is not reset
DrainUserMessage_KeepCursor ==
    LET digits == HexDigitsOf(input) IN
    /\ ~panicked
    /\ IF Len(digits) % 2 # 0
       THEN /\ UNCHANGED <<input, cursor_position, scroll_offset>>
            /\ input_call' = [op |-> "drain", key |-> Key("None"),
                              before |-> InputState, ret |-> NoBytes]
       ELSE /\ input' = <<>>
            /\ UNCHANGED <<cursor_position, scroll_offset>>
            /\ input_call' =
                 [op |-> "drain", key |-> Key("None"), before |-> InputState,
                  ret |-> [some |-> TRUE,
                           bytes |-> FilterMapOk([i \in DOMAIN Chunks2(digits) |->
                                        FromStrRadix16(Chunks2(digits)[i])])]]
    /\ UNCHANGED panicked

\* a plausible slip: the parity test on the unfiltered buffer
DrainUserMessage_RawParity ==
    LET digits == HexDigitsOf(input) IN
    /\ ~panicked
    /\ IF Len(input) % 2 # 0
       THEN /\ UNCHANGED <<input, cursor_position, scroll_offset>>
            /\ input_call' = [op |-> "drain", key |-> Key("None"),
                              before |-> InputState, ret |-> NoBytes]
       ELSE /\ input' = <<>>
            /\ cursor_position' = 0
            /\ scroll_offset' = 0
            /\ input_call' =
                 [op |-> "drain", key |-> Key("None"), before |-> InputState,
                  ret |-> [some |-> TRUE,
                           bytes |-> FilterMapOk([i \in DOMAIN Chunks2(digits) |->
                                        FromStrRadix16(Chunks2(digits)[i])])]]
    /\ UNCHANGED panicked

\* a plausible slip: a buffer without a hex digit is rejected like an odd one
DrainUserMessage_EmptyRejected ==
    LET digits == HexDigitsOf(input) IN
    /\ ~panicked
    /\ IF Len(digits) % 2 # 0 \/ digits = <<>>
       THEN /\ UNCHANGED <<input, cursor_position, scroll_offset>>
            /\ input_call' = [op |-> "drain", key |-> Key("None"),
                              before |-> InputState, ret |-> NoBytes]
       ELSE /\ input' = <<>>
            /\ cursor_position' = 0
            /\ scroll_offset' = 0
            /\ input_call' =
                 [op |-> "drain", key |-> Key("None"), before |-> InputState,
                  ret |-> [some |-> TRUE,
                           bytes |-> FilterMapOk([i \in DOMAIN Chunks2(digits) |->
                                        FromStrRadix16(Chunks2(digits)[i])])]]
    /\ UNCHANGED panicked

\* Input::drain_user_message
DrainUserMessage ==
    LET digits == HexDigitsOf(input) IN
    /\ ~panicked
    /\ IF Len(digits) % 2 # 0
       THEN /\ UNCHANGED <<input, cursor_position, scroll_offset>>
            /\ input_call' = [op |-> "drain", key |-> Key("None"),
                              before |-> InputState, ret |-> NoBytes]
       ELSE /\ input' = <<>>
            /\ cursor_position' = 0
            /\ scroll_offset' = 0
            /\ input_call' =
                 [op |-> "drain", key |-> Key("None"), before |-> InputState,
                  ret |-> [some |-> TRUE,
                           bytes |-> FilterMapOk([i \in DOMAIN Chunks2(digits) |->
                                        FromStrRadix16(Chunks2(digits)[i])])]]
    /\ UNCHANGED panicked

\* a plausible slip: the whitespace key is stored as typed, not as a space
HandleKey_WhitespaceKept(key) ==
    /\ ~panicked
    /\ input_call' = [op |-> "handle_key", key |-> key,
                      before |-> InputState, ret |-> NoBytes]
    /\ CASE key.kind \in {"Left", "Right", "End", "Delete", "Backspace"} ->
              /\ panicked' = TRUE
              /\ UNCHANGED <<input, cursor_position, scroll_offset>>
         [] key.kind = "Home" ->
              /\ cursor_position' = 0
              /\ scroll_offset' = 0
              /\ UNCHANGED <<input, panicked>>
         [] key.kind = "Char" /\ (IsAsciiHexdigit(key.c) \/ IsWhitespace(key.c)) ->
              /\ input' = Append(input, key.c)
              /\ cursor_position' = cursor_position + 1
              /\ UNCHANGED <<scroll_offset, panicked>>
         [] OTHER ->
              UNCHANGED <<input, cursor_position, scroll_offset, panicked>>

\* Input::handle_key
HandleKey(key) ==
    /\ ~panicked
    /\ input_call' = [op |-> "handle_key", key |-> key,
                      before |-> InputState, ret |-> NoBytes]
    /\ CASE key.kind \in {"Left", "Right", "End", "Delete", "Backspace"} ->
              \* todo!()
              /\ panicked' = TRUE
              /\ UNCHANGED <<input, cursor_position, scroll_offset>>
         [] key.kind = "Home" ->
              /\ cursor_position' = 0
              /\ scroll_offset' = 0
              /\ UNCHANGED <<input, panicked>>
         [] key.kind = "Char" /\ IsAsciiHexdigit(key.c) ->
              /\ input' = Append(input, key.c)
              /\ cursor_position' = cursor_position + 1
              /\ UNCHANGED <<scroll_offset, panicked>>
         [] key.kind = "Char" /\ ~IsAsciiHexdigit(key.c) /\ IsWhitespace(key.c) ->
              /\ input' = Append(input, " ")
              /\ cursor_position' = cursor_position + 1
              /\ UNCHANGED <<scroll_offset, panicked>>
         [] OTHER ->
              UNCHANGED <<input, cursor_position, scroll_offset, panicked>>

(***************************************************************************)
(* sections::Messages, the Message store, and its painter.                 *)
(***************************************************************************)
\* the payloads offered to the store: empty, one byte, and dumps longer
\* than the narrow widths below leave room for
Payloads == {<<>>, <<171>>, <<10, 65>>}

\* the terminal sizes offered to the painter: a width below the 13 bytes of
\* the row prefix and suffix, a width that cuts the dump, a width that does
\* not; heights below and above the number of messages
PaintSizes == {[width |-> w, height |-> h] : w \in {12, 14, 20}, h \in {2, 5}}

NoWrite == [payload |-> <<>>, ok |-> TRUE, stored_before |-> 0]
NotPainted == [op |-> "none", size |-> [width |-> 0, height |-> 0],
               panic |-> FALSE, rows |-> <<>>]

\* Messages::new
MessagesNew ==
    /\ messages = <<>>
    /\ write_count = 0
    /\ last_write = NoWrite

\* a plausible slip: the write's error propagated with `?`, so that a failed
\* write returns before the push
HandleMessage_WriteFirst(origin, payload, write_ok) ==
    /\ ~panicked
    /\ IF origin = "Local"
       THEN /\ write_count' = write_count + 1
            /\ last_write' = [payload |-> payload, ok |-> write_ok,
                              stored_before |-> Len(messages)]
       ELSE UNCHANGED <<write_count, last_write>>
    /\ IF origin = "Local" /\ ~write_ok
       THEN UNCHANGED messages
       ELSE messages' = Append(messages, [origin |-> origin, payload |-> payload])

\* Messages::handle_message; write_ok is the outcome of connection.write_all
HandleMessage(origin, payload, write_ok) ==
    /\ ~panicked
    /\ IF origin = "Local"
       THEN /\ write_count' = write_count + 1
            /\ last_write' = [payload |-> payload, ok |-> write_ok,
                              stored_before |-> Len(messages)]
       ELSE UNCHANGED <<write_count, last_write>>
    /\ messages' = Append(messages, [origin |-> origin, payload |-> payload])

LocalPrefix == <<" ", " ", "L", "O", "C", "A", "L", " ", "BOX_V", " ">>
RemotePrefix == <<" ", "R", "E", "M", "O", "T", "E", " ", "BOX_V", " ">>
RowSuffix == <<" ">>
EmptyLinePrefix == <<" ", " ", " ", " ", " ", " ", " ", " ", "BOX_V">>

\* a plausible slip: format!("{byte:x} "), a byte below 0x10 as one digit
HumanReadable_NoPad(message) ==
    Join([i \in DOMAIN message |->
            IF message[i] < 16 THEN <<LowerHexDigit(message[i]), " ">>
            ELSE <<LowerHexDigit(message[i] \div 16),
                   LowerHexDigit(message[i] % 16), " ">>])

\* message.iter().map(|byte| format!("{byte:02x} ")).collect().join("")
HumanReadable(message) ==
    Join([i \in DOMAIN message |->
            <<LowerHexDigit(message[i] \div 16), LowerHexDigit(message[i] % 16), " ">>])

\* width - lhs.len() - rhs.len() in usize: below zero the subtraction
\* overflows, which panics when the build checks overflow and wraps to a
\* length no string reaches when it does not
TruncateLen(width, lhs, rhs) == width - StrLen(lhs) - StrLen(rhs)

\* vec_to_line, where the subtraction does not overflow or wraps
VecToLine(width, lhs, message, rhs) ==
    LET human_readable == HumanReadable(message)
        new_len == TruncateLen(width, lhs, rhs)
        truncated == IF new_len < 0 \/ new_len >= Len(human_readable)
                     THEN human_readable
                     ELSE SubSeq(human_readable, 1, new_len)
    IN lhs \o truncated \o rhs

OriginPrefix(origin) == IF origin = "Local" THEN LocalPrefix ELSE RemotePrefix

\* self.messages.iter().rev().take(size.height): message i of the result
\* is the i-th newest
RevTake(ms, n) ==
    [i \in 1..(IF n < Len(ms) THEN n ELSE Len(ms)) |-> ms[Len(ms) + 1 - i]]

\* the grid of Messages::paint
MessagesGrid(size) ==
    LET taken == RevTake(messages, size.height)
        output == [i \in DOMAIN taken |->
                     VecToLine(size.width, OriginPrefix(taken[i].origin),
                               taken[i].payload, RowSuffix)]
        empty_line == Resize(EmptyLinePrefix, size.width, " ")
    IN Resize(output, size.height, empty_line)

\* vec_to_line is reached, and its subtraction overflows
PaintOverflows(size) ==
    /\ size.height > 0
    /\ messages # <<>>
    /\ TruncateLen(size.width, LocalPrefix, RowSuffix) < 0

\* impl Painter for Messages: paint; overflow_checks is the build's setting
MessagesPaint(size, overflow_checks) ==
    /\ ~panicked
    /\ IF PaintOverflows(size) /\ overflow_checks
       THEN /\ painted' = [op |-> "messages", size |-> size, panic |-> TRUE,
                           rows |-> <<>>]
            /\ panicked' = TRUE
       ELSE /\ painted' = [op |-> "messages", size |-> size, panic |-> FALSE,
                           rows |-> MessagesGrid(size)]
            /\ UNCHANGED panicked

(***************************************************************************)
(* The reader threads of spawn_threads and their channels.                 *)
(***************************************************************************)
\* what one connection.read can return: n >= 1 bytes, zero bytes, a
\* would-block error, any other error
ReadPayloads == {<<171>>, <<10, 65>>}
ReadResults ==
    {[kind |-> "Ok", bytes |-> b] : b \in ReadPayloads \cup {<<>>}}
    \cup {[kind |-> k, bytes |-> <<>>] : k \in {"WouldBlock", "Err"}}

\* the ghost name of a read's outcome
ReadOutcome(result) ==
    CASE result.kind = "Ok" /\ result.bytes = <<>> -> "eof"
      [] result.kind = "Ok" /\ result.bytes # <<>> -> "data"
      [] result.kind = "WouldBlock" -> "would_block"
      [] OTHER -> "error"

\* a plausible slip: the guard of the would-block arm left out, so that a
\* would-block falls to Err(_) => break
ListenBreaks_OnWouldBlock(result) ==
    \/ result.kind = "Ok" /\ Len(result.bytes) = 0
    \/ result.kind \in {"Err", "WouldBlock"}

\* a plausible slip: no Ok(0) arm, so that a zero-length read is a message
\* of no bytes
ListenBreaks_NotOnEof(result) ==
    result.kind = "Err"

\* the arms of Messages::listen that break 'connected
ListenBreaks(result) ==
    \/ result.kind = "Ok" /\ Len(result.bytes) = 0
    \/ result.kind = "Err"

\* a plausible slip: the local Vec not emptied after the send
ListenAfterSend_Keep(sent) == sent

\* message.truncate(0)
ListenAfterSend(sent) == <<>>

\* the channel ends: the Sender lives in its listen call, the Receivers in
\* the Window the event loop runs on
MessageSinkAlive == listen_pc = "running"
KeySinkAlive == key_listen_pc = "running"
ReceiverAlive == loop_pc # "returned"

\* Messages::listen, one turn of its loop on the result of connection.read
Listen(result) ==
    /\ listen_pc = "running"
    /\ last_read' = ReadOutcome(result)
    /\ IF ListenBreaks(result)
       THEN /\ listen_pc' = "returned"
            /\ UNCHANGED <<listen_message, reads, sends, last_send, message_chan>>
       ELSE IF result.kind = "Ok"
       THEN LET extended == listen_message \o result.bytes IN
            /\ reads' = Append(reads, result.bytes)
            /\ sends' = sends + 1
            /\ IF ReceiverAlive
               THEN /\ message_chan' = Append(message_chan, extended)
                    /\ last_send' = "ok"
               ELSE /\ last_send' = "failed"
                    /\ UNCHANGED message_chan
            /\ listen_message' = ListenAfterSend(extended)
            /\ UNCHANGED listen_pc
       ELSE UNCHANGED <<listen_pc, listen_message, reads, sends, last_send, message_chan>>

\* what Terminal::read_key can return to Input::listen
ThreadKeys == {CtrlKey("c"), CharKey("4"), CharKey("LF")}
ReadKeyResults ==
    {[kind |-> "Some", key |-> k] : k \in ThreadKeys}
    \cup {[kind |-> k, key |-> Key("None")] : k \in {"None", "Err"}}

\* Input::listen, one turn of its loop on the result of Terminal::read_key
InputListen(result) ==
    /\ key_listen_pc = "running"
    /\ CASE result.kind = "Err" ->
              /\ key_listen_pc' = "returned"
              /\ UNCHANGED <<keys_read, key_chan>>
         [] result.kind = "None" ->
              UNCHANGED <<key_listen_pc, keys_read, key_chan>>
         [] OTHER ->
              /\ keys_read' = keys_read + 1
              /\ IF ReceiverAlive
                 THEN /\ key_chan' = Append(key_chan, result.key)
                      /\ UNCHANGED key_listen_pc
                 ELSE /\ key_listen_pc' = "returned"
                      /\ UNCHANGED key_chan

\* spawn_threads: both channels empty, both threads at the top of their loop
SpawnThreads ==
    /\ listen_pc = "running"
    /\ listen_message = <<>>
    /\ reads = <<>>
    /\ last_read = "none"
    /\ sends = 0
    /\ last_send = "none"
    /\ message_chan = <<>>
    /\ key_listen_pc = "running"
    /\ keys_read = 0
    /\ key_chan = <<>>

(***************************************************************************)
(* The event loop that polls the two channels (the Window that takes the   *)
(* WindowReceiver of spawn_threads).                                       *)
(***************************************************************************)
\* Receiver::try_recv: a queued value first; Disconnected only when the
\* queue is empty and the Sender is gone
TryRecv(queue, sender_alive) ==
    IF queue # <<>> THEN "Value"
    ELSE IF sender_alive THEN "Empty" ELSE "Disconnected"

NoPoll == [result |-> "none", reader_returned |-> FALSE, queued |-> 0]

LoopNew ==
    /\ loop_pc = "poll_message"
    /\ loop_state = "Running"
    /\ loop_error = "none"
    /\ dirty = FALSE
    /\ last_poll = NoPoll

\* step 1 of the tick: poll the message channel
PollMessage ==
    LET polled == TryRecv(message_chan, MessageSinkAlive) IN
    /\ loop_pc = "poll_message"
    /\ ~panicked
    /\ last_poll' = [result |-> polled, reader_returned |-> ~MessageSinkAlive,
                     queued |-> Len(message_chan)]
    /\ CASE polled = "Value" ->
              /\ HandleMessage("Remote", Head(message_chan), TRUE)
              /\ message_chan' = Tail(message_chan)
              /\ dirty' = TRUE
              /\ loop_pc' = "poll_key"
              /\ UNCHANGED <<loop_state, loop_error>>
         [] polled = "Empty" ->
              /\ loop_pc' = "poll_key"
              /\ UNCHANGED <<messageVars, message_chan, dirty, loop_state, loop_error>>
         [] OTHER ->
              /\ loop_error' = "ChannelBroken"
              /\ loop_pc' = "returned"
              /\ UNCHANGED <<messageVars, message_chan, dirty, loop_state>>
    /\ UNCHANGED <<inputVars, painted, panicked, keyListenVars, windowVars, startVars, layoutVars>>
    /\ UNCHANGED <<listen_pc, listen_message, reads, last_read, sends, last_send>>

\* step 2 of the tick: poll the key channel; write_ok is the outcome of the
\* socket write of a committed message
PollKey(write_ok) ==
    LET polled == TryRecv(key_chan, KeySinkAlive)
        key == Head(key_chan)
    IN
    /\ loop_pc = "poll_key"
    /\ ~panicked
    /\ CASE polled = "Value" /\ key = CtrlKey("c") ->
              \* Quitting: the screen cleared, the cursor at the origin, return
              /\ loop_state' = "Quitting"
              /\ loop_pc' = "returned"
              /\ key_chan' = Tail(key_chan)
              /\ UNCHANGED <<inputVars, messageVars, panicked, dirty, loop_error>>
         [] polled = "Value" /\ key = CharKey("LF") ->
              /\ DrainUserMessage
              /\ IF input_call'.ret.some
                 THEN /\ HandleMessage("Local", input_call'.ret.bytes, write_ok)
                      /\ dirty' = TRUE
                 ELSE UNCHANGED <<messageVars, dirty>>
              /\ loop_pc' = "repaint"
              /\ key_chan' = Tail(key_chan)
              /\ UNCHANGED <<loop_state, loop_error>>
         [] polled = "Value" /\ key \notin {CtrlKey("c"), CharKey("LF")} ->
              /\ HandleKey(key)
              /\ dirty' = (dirty \/ <<input, cursor_position, scroll_offset>>'
                                     # <<input, cursor_position, scroll_offset>>)
              /\ loop_pc' = IF panicked' THEN "returned" ELSE "repaint"
              /\ key_chan' = Tail(key_chan)
              /\ UNCHANGED <<messageVars, loop_state, loop_error>>
         [] polled = "Empty" ->
              /\ loop_pc' = "repaint"
              /\ UNCHANGED <<inputVars, messageVars, panicked, key_chan, dirty,
                             loop_state, loop_error>>
         [] OTHER ->
              /\ loop_error' = "ChannelBroken"
              /\ loop_pc' = "returned"
              /\ UNCHANGED <<inputVars, messageVars, panicked, key_chan, dirty,
                             loop_state>>
    /\ UNCHANGED <<painted, listenVars, key_listen_pc, keys_read, last_poll,
                   windowVars, startVars, layoutVars>>

\* step 3 of the tick: repaint when dirty, and clear the flag
Repaint ==
    /\ loop_pc = "repaint"
    /\ dirty' = FALSE
    /\ loop_pc' = "sleep"
    /\ UNCHANGED <<inputVars, messageVars, painted, panicked, listenVars,
                   keyListenVars, loop_state, loop_error, last_poll, windowVars,
                   startVars, layoutVars>>

\* step 4 of the tick: the fixed sleep
Sleep ==
    /\ loop_pc = "sleep"
    /\ loop_pc' = "poll_message"
    /\ UNCHANGED <<inputVars, messageVars, painted, panicked, listenVars,
                   keyListenVars, loop_state, loop_error, dirty, last_poll,
                   windowVars, startVars, layoutVars>>

\* what the event loop does with a key it has received (step 2, on a
\* value), while it is Running
OnKey(key, write_ok) ==
    /\ loop_state = "Running"
    /\ ~panicked
    /\ CASE key = CtrlKey("c") ->
              /\ loop_state' = "Quitting"
              /\ UNCHANGED <<inputVars, messageVars, panicked>>
         [] key = CharKey("LF") ->
              /\ DrainUserMessage
              /\ IF input_call'.ret.some
                 THEN HandleMessage("Local", input_call'.ret.bytes, write_ok)
                 ELSE UNCHANGED messageVars
              /\ UNCHANGED loop_state
         [] OTHER ->
              /\ HandleKey(key)
              /\ UNCHANGED <<messageVars, loop_state>>

\* what the event loop does with a message it has received (step 1, on a
\* value), while it is Running
OnMessage(payload) ==
    /\ loop_state = "Running"
    /\ HandleMessage("Remote", payload, TRUE)
    /\ UNCHANGED <<inputVars, panicked, loop_state>>

(***************************************************************************)
(* The handlers as functions of the state they work on, to compare the     *)
(* outcomes of two orders of events from one state.                        *)
(***************************************************************************)
\* Input::handle_key on the buffer b; returned is FALSE where it panics
HandleKeyOn(b, key) ==
    CASE key.kind \in {"Left", "Right", "End", "Delete", "Backspace"} ->
           [buffer |-> b, returned |-> FALSE]
      [] key.kind = "Home" ->
           [buffer |-> [b EXCEPT !.cursor_position = 0, !.scroll_offset = 0],
            returned |-> TRUE]
      [] key.kind = "Char" /\ IsAsciiHexdigit(key.c) ->
           [buffer |-> [b EXCEPT !.input = Append(@, key.c),
                                 !.cursor_position = @ + 1],
            returned |-> TRUE]
      [] key.kind = "Char" /\ ~IsAsciiHexdigit(key.c) /\ IsWhitespace(key.c) ->
           [buffer |-> [b EXCEPT !.input = Append(@, " "),
                                 !.cursor_position = @ + 1],
            returned |-> TRUE]
      [] OTHER -> [buffer |-> b, returned |-> TRUE]

\* Input::drain_user_message on the buffer b
DrainUserMessageOn(b) ==
    LET digits == HexDigitsOf(b.input) IN
    IF Len(digits) % 2 # 0
    THEN [buffer |-> b, ret |-> NoBytes]
    ELSE [buffer |-> [input |-> <<>>, cursor_position |-> 0, scroll_offset |-> 0],
          ret |-> [some |-> TRUE,
                   bytes |-> FilterMapOk([i \in DOMAIN Chunks2(digits) |->
                                FromStrRadix16(Chunks2(digits)[i])])]]

\* a plausible slip: the write's error propagated with `?`, so that a failed
\* write returns before the push
HandleMessageOn_WriteFirst(ms, origin, payload, write_ok) ==
    IF origin = "Local" /\ ~write_ok THEN ms
    ELSE Append(ms, [origin |-> origin, payload |-> payload])

\* Messages::handle_message on the log ms
HandleMessageOn(ms, origin, payload, write_ok) ==
    Append(ms, [origin |-> origin, payload |-> payload])

\* the state the event loop works on: the buffer, the log, and whether the
\* loop is still running
World == [buffer |-> InputState, messages |-> messages,
          running |-> loop_state = "Running" /\ ~panicked]

\* OnKey as a function of the world w
AfterKey(w, key, write_ok) ==
    IF ~w.running THEN w
    ELSE CASE key = CtrlKey("c") -> [w EXCEPT !.running = FALSE]
           [] key = CharKey("LF") ->
                LET drained == DrainUserMessageOn(w.buffer) IN
                [buffer |-> drained.buffer,
                 messages |-> IF drained.ret.some
                              THEN HandleMessageOn(w.messages, "Local",
                                                   drained.ret.bytes, write_ok)
                              ELSE w.messages,
                 running |-> TRUE]
           [] OTHER ->
                LET handled == HandleKeyOn(w.buffer, key) IN
                [buffer |-> handled.buffer, messages |-> w.messages,
                 running |-> handled.returned]

\* OnMessage as a function of the world w
AfterMessage(w, payload) ==
    IF ~w.running THEN w
    ELSE [w EXCEPT !.messages = HandleMessageOn(@, "Remote", payload, TRUE)]

(***************************************************************************)
(* window::Window: the event loop that reads the keyboard and the socket   *)
(* itself.                                                                 *)
(***************************************************************************)
\* what Terminal::size can return: an error, or a (width, height) of u16
TermSize(w, h) == [ok |-> TRUE, width |-> w, height |-> h]
SizeErr == [ok |-> FALSE, width |-> 0, height |-> 0]
\* a roomy terminal, heights below 4 and below 2, a width below the title's
\* length and a width below the divider's 27 bytes
WindowSizes == {TermSize(80, 24), TermSize(80, 3), TermSize(80, 1),
                TermSize(40, 24), TermSize(20, 24), SizeErr}

\* the peer address the title is drawn for
PeerIp == <<"1", "2", "7", ".", "0", ".", "0", ".", "1">>
PeerPort == <<"8", "0", "8", "0">>

\* format!("HexCat. Connected to {} (on port {}).", addr.ip(), addr.port())
TitleText ==
    <<"H", "e", "x", "C", "a", "t", ".", " ", "C", "o", "n", "n", "e", "c", "t",
      "e", "d", " ", "t", "o", " ">> \o PeerIp
    \o <<" ", "(", "o", "n", " ", "p", "o", "r", "t", " ">> \o PeerPort
    \o <<")", ".">>

TitleSidebar == <<"BOX_H", "BOX_H", "BOX_H", "BOX_H", "BOX_H", "BOX_H", "BOX_H",
                  "BOX_H", "BOX_T">>
InputSidebar == <<"BOX_H", "BOX_H", "BOX_H", "BOX_H", "BOX_H", "BOX_H", "BOX_H",
                  "BOX_H", "BOX_X">>
WindowPrompt == <<" ", "I", "n", "p", "u", "t", ":", " ", "BOX_V", " ">>

(***************************************************************************)
(* sections::Title and sections::Input as Painters.                        *)
(***************************************************************************)
\* the prompt of Input::new: 10 characters, 12 bytes
InputPrompt == <<" ", "I", "n", "p", "u", "t", ":", " ", "BOX_V", " ">>

\* vec![' '; size.width]
BlankRow(width) == [i \in 1..width |-> " "]

\* the grid of Title::paint: Vec::resize cuts as well as pads
TitleGrid(size) ==
    LET title == Resize(TitleText, size.width, " ")
        divider == Resize(TitleSidebar, size.width, "BOX_H")
    IN Resize(<<title, divider>>, size.height, BlankRow(size.width))

\* impl Painter for Title: paint
TitlePaint(size) ==
    /\ ~panicked
    /\ painted' = [op |-> "title", size |-> size, panic |-> FALSE,
                   rows |-> TitleGrid(size)]
    /\ UNCHANGED panicked

\* size.width - self.prompt.len() - 1 in usize, prompt.len() in bytes
MaxInputLength(width) == width - StrLen(InputPrompt) - 1

\* row 1 of Input::paint: the prompt, then the input from scroll_offset on,
\* cut or padded to max_input_length
InputRow(width) ==
    InputPrompt \o Resize(SubSeq(input, scroll_offset + 1, Len(input)),
                          MaxInputLength(width), " ")

\* the grid of Input::paint
InputGrid(size) ==
    LET divider == Resize(InputSidebar, size.width, "BOX_H")
    IN Resize(<<divider, InputRow(size.width)>>, size.height,
              BlankRow(size.width))

\* Input::paint fails: max_input_length below zero panics where the build
\* checks overflow, and where it does not wraps to a length resize cannot
\* allocate (capacity overflow, a panic as well); drain(0..scroll_offset)
\* panics past the end of the buffer
InputPaintPanics(size) ==
    \/ MaxInputLength(size.width) < 0
    \/ scroll_offset > Len(input)

\* impl Painter for Input: paint
InputPaint(size) ==
    /\ ~panicked
    /\ IF InputPaintPanics(size)
       THEN /\ painted' = [op |-> "input", size |-> size, panic |-> TRUE,
                           rows |-> <<>>]
            /\ panicked' = TRUE
       ELSE /\ painted' = [op |-> "input", size |-> size, panic |-> FALSE,
                           rows |-> InputGrid(size)]
            /\ UNCHANGED panicked

\* Input::get_cursor_x_position
GetCursorXPosition == (StrLen(InputPrompt) + cursor_position - 2) % 65536

\* u16::saturating_sub
SaturatingSub(a, b) == IF a < b THEN 0 ELSE a - b

Pos(x, y) == [x |-> x, y |-> y]

\* the outcome of a draw routine: how it ended, where it left
\* Terminal::cursor, what it has put on the screen, the position it returns
Drawn(outcome, cursor, scr, ret) ==
    [outcome |-> outcome, cursor |-> cursor, screen |-> scr, ret |-> ret]

\* Window::draw_title. " ".repeat(width - title.len()) and
\* "-".repeat(width - sidebar.len()): below zero the subtraction panics
\* where the build checks overflow and the repeat count wraps past any
\* capacity (a panic as well) where it does not
DrawTitle(peer_ok, size, flush_ok) ==
    IF ~peer_ok THEN Drawn("StreamRead", term_cursor, screen, Pos(0, 0))
    ELSE IF ~size.ok THEN Drawn("TerminalError", term_cursor, screen, Pos(0, 0))
    ELSE IF size.width < StrLen(TitleText) \/ size.width < StrLen(TitleSidebar)
    THEN Drawn("Panic", Pos(0, 0), screen, Pos(0, 0))
    ELSE IF ~flush_ok
    THEN Drawn("TerminalError", Pos(0, 0), screen \cup {"title"}, Pos(0, 0))
    ELSE Drawn("Ok", Pos(0, 0), screen \cup {"title"}, Pos(0, 0))

\* Window::draw_messages_empty. for y in 2..height - 2 in u16: below zero
\* the subtraction panics where the build checks overflow and wraps to
\* 65536 + height - 2 where it does not
DrawMessagesEmpty(size, flush_ok, overflow_checks) ==
    IF ~size.ok THEN Drawn("TerminalError", term_cursor, screen, Pos(0, 0))
    ELSE IF size.height < 2 /\ overflow_checks
    THEN Drawn("Panic", term_cursor, screen, Pos(0, 0))
    ELSE LET last == (IF size.height < 2 THEN 65536 + size.height - 2
                      ELSE size.height - 2) - 1
             cursor == IF last >= 2 THEN Pos(8, last) ELSE term_cursor
             scr == IF last >= 2 THEN screen \cup {"gutter"} ELSE screen
         IN Drawn(IF flush_ok THEN "Ok" ELSE "TerminalError", cursor, scr, Pos(0, 0))

\* Window::draw_input; pending_nibble is None throughout
DrawInput(size, flush_ok) ==
    IF ~size.ok THEN Drawn("TerminalError", term_cursor, screen, Pos(0, 0))
    ELSE LET cursor == Pos(0, SaturatingSub(size.height, 1 + 2 + 1)) IN
         IF size.width < StrLen(InputSidebar)
            \/ size.width - StrLen(WindowPrompt) - 1 < 0
         THEN Drawn("Panic", cursor, screen, Pos(0, 0))
         ELSE Drawn(IF flush_ok THEN "Ok" ELSE "TerminalError", cursor,
                    screen \cup {"input"},
                    Pos(Len(w_user_input), SaturatingSub(size.height, 1)))

\* rows first..last of the screen, none when last < first
RowSpan(first, last) == [first |-> first, last |-> last]
NoRows == [title |-> RowSpan(0, -1), gutter |-> RowSpan(0, -1),
           input |-> RowSpan(0, -1)]

\* the rows Window::draw_title prints on: move_cursor(0, 0), the title and
\* its padding; println! ends the row, and the sidebar goes on the next
TitleRows == RowSpan(0, 1)

\* the rows Window::draw_messages_empty prints on: move_cursor(8, y) and a
\* bar for each y in 2..height - 2, the subtraction wrapped below zero
GutterRows(height) ==
    RowSpan(2, (IF height < 2 THEN 65536 + height - 2 ELSE height - 2) - 1)

\* the rows Window::draw_input prints on:
\* move_cursor(0, height.saturating_sub(1 + 2 + 1)) and the divider;
\* println! ends the row, and the prompt and the input go on the next
InputRows(height) ==
    RowSpan(SaturatingSub(height, 1 + 2 + 1),
            SaturatingSub(height, 1 + 2 + 1) + 1)

\* Window::draw_messages: hide, show, flush
DrawMessages(flush_ok) ==
    Drawn(IF flush_ok THEN "Ok" ELSE "TerminalError", term_cursor, screen, Pos(0, 0))

\* a draw routine's outcome as it reaches run through `?`
RunAfter(drawn, next_pc) ==
    /\ term_cursor' = drawn.cursor
    /\ screen' = drawn.screen
    /\ panicked' = (drawn.outcome = "Panic")
    /\ w_result' = IF drawn.outcome \in {"Ok", "Panic"} THEN w_result
                   ELSE drawn.outcome
    /\ w_pc' = CASE drawn.outcome = "Ok" -> next_pc
                 [] drawn.outcome = "Panic" -> "unwound"
                 [] OTHER -> "returned"

\* Window::new
WindowNew ==
    /\ should_quit = FALSE
    /\ w_messages = <<>>
    /\ w_user_input = <<>>
    /\ w_scroll_offset = 0
    /\ w_pc = "run"
    /\ w_result = "none"
    /\ w_keys_read = 0
    /\ w_reads = <<>>
    /\ term_cursor = Pos(0, 0)
    /\ screen = {}

\* Window::run, up to the loop: clear_screen (nothing is drawn yet, the
\* screen stays empty) and draw_title,
RunDrawTitle(peer_ok, size, flush_ok) ==
    /\ w_pc = "run"
    /\ screen = {}
    /\ RunAfter(DrawTitle(peer_ok, size, flush_ok), "draw_messages_empty")
    /\ UNCHANGED <<should_quit, w_messages, w_user_input, w_scroll_offset,
                   w_keys_read, w_reads>>

\* then draw_messages_empty,
RunDrawMessagesEmpty(size, flush_ok, overflow_checks) ==
    /\ w_pc = "draw_messages_empty"
    /\ RunAfter(DrawMessagesEmpty(size, flush_ok, overflow_checks), "draw_input")
    /\ UNCHANGED <<should_quit, w_messages, w_user_input, w_scroll_offset,
                   w_keys_read, w_reads>>

\* then draw_input
RunDrawInput(size, flush_ok) ==
    /\ w_pc = "draw_input"
    /\ RunAfter(DrawInput(size, flush_ok), "loop_top")
    /\ UNCHANGED <<should_quit, w_messages, w_user_input, w_scroll_offset,
                   w_keys_read, w_reads>>

\* the top of 'main: break when should_quit, then clear_screen,
\* move_cursor(0, 0) and Ok(())
RunLoopTop ==
    /\ w_pc = "loop_top"
    /\ IF should_quit
       THEN /\ screen' = {}
            /\ term_cursor' = Pos(0, 0)
            /\ w_result' = "Ok"
            /\ w_pc' = "returned"
       ELSE /\ w_pc' = "user_input"
            /\ UNCHANGED <<screen, term_cursor, w_result>>
    /\ UNCHANGED <<should_quit, w_messages, w_user_input, w_scroll_offset,
                   w_keys_read, w_reads, panicked>>

\* what Terminal::read_key_nonblocking can return to Window::user_input
WindowKeys ==
    {CtrlKey("c"), CtrlKey("LF"), CharKey("4"), CharKey("LF")}
    \cup {Key(k) : k \in {"Up", "Down", "PageUp", "PageDown", "Left", "Home",
                          "Delete", "Backspace", "F1"}}
WindowKeyResults ==
    {[kind |-> "Some", key |-> k] : k \in WindowKeys}
    \cup {[kind |-> k, key |-> Key("None")] : k \in {"None", "Err"}}

\* Window::user_input
UserInput(result, size, draw_size, flush_ok) ==
    LET key == result.key IN
    /\ w_pc = "user_input"
    /\ w_keys_read' = IF result.kind = "Some" THEN w_keys_read + 1 ELSE w_keys_read
    /\ CASE result.kind = "Err" ->
              /\ w_result' = "UserInput"
              /\ w_pc' = "returned"
              /\ UNCHANGED <<should_quit, w_user_input, w_scroll_offset,
                             term_cursor, screen, panicked>>
         [] result.kind = "None" ->
              /\ w_pc' = "remote_input"
              /\ UNCHANGED <<should_quit, w_user_input, w_scroll_offset, w_result,
                             term_cursor, screen, panicked>>
         [] result.kind = "Some" /\ key = CtrlKey("c") ->
              /\ should_quit' = TRUE
              /\ RunAfter(DrawInput(draw_size, flush_ok), "remote_input")
              /\ UNCHANGED <<w_user_input, w_scroll_offset>>
         [] result.kind = "Some" /\ key = CtrlKey("LF") ->
              \* the push, then todo!()
              /\ w_user_input' = Append(w_user_input, 10)
              /\ panicked' = TRUE
              /\ w_pc' = "unwound"
              /\ UNCHANGED <<should_quit, w_scroll_offset, w_result, term_cursor,
                             screen>>
         [] result.kind = "Some"
            /\ key.kind \in {"Up", "Down", "PageUp", "PageDown"} ->
              IF ~size.ok
              THEN /\ w_result' = "TerminalError"
                   /\ w_pc' = "returned"
                   /\ UNCHANGED <<should_quit, w_user_input, w_scroll_offset,
                                  term_cursor, screen, panicked>>
              ELSE /\ w_scroll_offset' =
                        CASE key.kind = "Up" -> w_scroll_offset + 1
                          [] key.kind = "Down" -> SaturatingSub(w_scroll_offset, 1)
                          [] key.kind = "PageUp" ->
                               w_scroll_offset + SaturatingSub(size.height, 4)
                          [] key.kind = "PageDown" ->
                               SaturatingSub(w_scroll_offset,
                                             SaturatingSub(size.height, 4))
                   /\ RunAfter(DrawInput(draw_size, flush_ok), "remote_input")
                   /\ UNCHANGED <<should_quit, w_user_input>>
         [] result.kind = "Some"
            /\ key.kind \in {"Left", "Right", "Home", "End", "Char", "Delete",
                             "Backspace"} ->
              \* todo!()
              /\ panicked' = TRUE
              /\ w_pc' = "unwound"
              /\ UNCHANGED <<should_quit, w_user_input, w_scroll_offset, w_result,
                             term_cursor, screen>>
         [] OTHER ->
              \* _ => return Ok(())
              /\ w_pc' = "remote_input"
              /\ UNCHANGED <<should_quit, w_user_input, w_scroll_offset, w_result,
                             term_cursor, screen, panicked>>
    /\ UNCHANGED <<w_messages, w_reads>>

\* Window::remote_input
RemoteInput(result, flush_ok) ==
    /\ w_pc = "remote_input"
    /\ CASE result.kind = "WouldBlock" ->
              /\ w_pc' = "loop_top"
              /\ UNCHANGED <<w_messages, w_reads, w_result, term_cursor, screen,
                             panicked>>
         [] result.kind = "Err" \/ (result.kind = "Ok" /\ Len(result.bytes) = 0) ->
              /\ w_result' = "StreamRead"
              /\ w_pc' = "returned"
              /\ UNCHANGED <<w_messages, w_reads, term_cursor, screen, panicked>>
         [] OTHER ->
              /\ w_messages' = Append(w_messages, [origin |-> "Remote",
                                                   payload |-> result.bytes])
              /\ w_reads' = Append(w_reads, result.bytes)
              /\ RunAfter(DrawMessages(flush_ok), "loop_top")
    /\ UNCHANGED <<should_quit, w_user_input, w_scroll_offset, w_keys_read>>

(***************************************************************************)
(* main: the command line and connect.                                     *)
(***************************************************************************)
\* the words a command line is made of: an IP address, a host name that is
\* not one, a port, a number no u16 holds
ArgWords == {"127.0.0.1", "localhost", "8080", "70000"}

\* env::args().collect(): the program's name, then the positional arguments
CommandLines ==
    {<<"hexcat">> \o w : w \in UNION {[1..n -> ArgWords] : n \in 0..MaxArgs}}

\* str::parse::<IpAddr> and str::parse::<u16>
ParseIpAddr(word) == [ok |-> word \in {"127.0.0.1"}]
ParsePort(word) == [ok |-> word \in {"8080"}]

\* what connect came to, whether it has parsed an argument, whether it has
\* called TcpStream::connect
ConnectResult(outcome, parsed, dialled) ==
    [outcome |-> outcome, parsed |-> parsed, dialled |-> dialled]
NotConnected == ConnectResult("none", FALSE, FALSE)

\* connect on the command line a (a[1] is args[0], the program's name);
\* args[2] on a Vec of two elements is an index out of bounds, a panic
ConnectOutcome(a, dial_ok) ==
    IF Len(a) < 2 THEN ConnectResult("NotEnoughArguments", FALSE, FALSE)
    ELSE IF ~ParseIpAddr(a[2]).ok
    THEN ConnectResult("InvalidConnectionSettings", TRUE, FALSE)
    ELSE IF Len(a) < 3 THEN ConnectResult("Panic", TRUE, FALSE)
    ELSE IF ~ParsePort(a[3]).ok
    THEN ConnectResult("InvalidConnectionSettings", TRUE, FALSE)
    ELSE IF ~dial_ok THEN ConnectResult("CouldNotConnect", TRUE, TRUE)
    ELSE ConnectResult("Connected", TRUE, TRUE)

\* connect; dial_ok is the outcome of TcpStream::connect
Connect(dial_ok) ==
    /\ connect_result = NotConnected
    /\ connect_result' = ConnectOutcome(args, dial_ok)
    /\ panicked' = (connect_result'.outcome = "Panic")
    /\ UNCHANGED args

\* start_window has returned a Window: connect succeeded on a command line
\* of an address and a port
Started ==
    /\ args = <<"hexcat", "127.0.0.1", "8080">>
    /\ connect_result = ConnectResult("Connected", TRUE, TRUE)

\* a terminal of 80 columns and 24 rows on which nothing is drawn yet
LayoutNew ==
    /\ term_size = TermSize(80, 24)
    /\ rows_drawn = NoRows

Init ==
    /\ InputNew
    /\ MessagesNew
    /\ painted = NotPainted
    /\ panicked = FALSE
    /\ SpawnThreads
    /\ LoopNew
    /\ WindowNew
    /\ Started
    /\ LayoutNew

(***************************************************************************)
(* SpecInput: the Input state machine under every sequence of calls.       *)
(***************************************************************************)
\* the keyboard stops once the buffer holds MaxInput characters
KeyStep ==
    \E key \in InputKeys :
        /\ key.kind = "Char" => Len(input) < MaxInput
        /\ HandleKey(key)
        /\ UNCHANGED <<messageVars, painted, threadVars, windowVars, startVars, layoutVars>>

DrainStep ==
    /\ DrainUserMessage
    /\ UNCHANGED <<messageVars, painted, threadVars, windowVars, startVars, layoutVars>>

NextInput ==
    \/ KeyStep
    \/ DrainStep

SpecInput == Init /\ [][NextInput]_vars

(***************************************************************************)
(* SpecMessages: the Message store and its painter under every sequence    *)
(* of calls.                                                               *)
(***************************************************************************)
AppendStep ==
    \E origin \in {"Local", "Remote"}, payload \in Payloads, write_ok \in BOOLEAN :
        /\ Len(messages) < MaxMessages
        /\ origin = "Remote" => write_ok
        /\ HandleMessage(origin, payload, write_ok)
        /\ painted' = NotPainted
        /\ UNCHANGED <<inputVars, panicked, threadVars, windowVars, startVars, layoutVars>>

PaintStep ==
    \E size \in PaintSizes, overflow_checks \in BOOLEAN :
        /\ MessagesPaint(size, overflow_checks)
        /\ UNCHANGED <<inputVars, messageVars, threadVars, windowVars, startVars, layoutVars>>

NextMessages ==
    \/ AppendStep
    \/ PaintStep

SpecMessages == Init /\ [][NextMessages]_vars

(***************************************************************************)
(* SpecPaint: the Input state machine typed into, and the Title and Input  *)
(* painters called on it at every size.                                    *)
(***************************************************************************)
\* the keys typed: a digit, a space, and Home
PaintKeys == {CharKey("4"), CharKey(" "), Key("Home")}

\* the sizes of a region: widths below the prompt's 12 bytes, with room for
\* no, one and seven characters of input, and wider than the title; heights
\* below, at and above the two rows a region has
RegionSizes == {[width |-> w, height |-> h] : w \in {5, 13, 14, 20, 50},
                                              h \in {1, 2, 3}}

\* the caller drops the grid it held when it handles the next key
PaintKeyStep ==
    \E key \in PaintKeys :
        /\ key.kind = "Char" => Len(input) < MaxInput
        /\ HandleKey(key)
        /\ painted' = NotPainted
        /\ UNCHANGED <<messageVars, threadVars, windowVars, startVars, layoutVars>>

TitlePaintStep ==
    \E size \in RegionSizes :
        /\ TitlePaint(size)
        /\ UNCHANGED <<inputVars, messageVars, threadVars, windowVars, startVars, layoutVars>>

InputPaintStep ==
    \E size \in RegionSizes :
        /\ InputPaint(size)
        /\ UNCHANGED <<inputVars, messageVars, threadVars, windowVars, startVars, layoutVars>>

NextPaint ==
    \/ PaintKeyStep
    \/ TitlePaintStep
    \/ InputPaintStep

SpecPaint == Init /\ [][NextPaint]_vars

(***************************************************************************)
(* SpecEvents: the event loop's handling of keys and messages, in every    *)
(* order of arrival, and the log painted in between.                       *)
(***************************************************************************)
\* the keys that arrive: a digit, a space, Enter and Ctrl-C
EventKeys == {CharKey("F"), CharKey(" "), CharKey("LF"), CtrlKey("c")}

\* the sizes the log is painted at: a width that cuts a dump of two bytes
\* and a height below the number of messages, and a width and height with
\* room for all
EventPaintSizes == {[width |-> 16, height |-> 2], [width |-> 20, height |-> 3]}

EventKeyStep ==
    \E key \in EventKeys, write_ok \in BOOLEAN :
        /\ key \in {CharKey("F"), CharKey(" ")} => Len(input) < MaxInput
        /\ key = CharKey("LF") => Len(messages) < MaxMessages
        /\ OnKey(key, write_ok)
        /\ painted' = NotPainted
        /\ UNCHANGED <<listenVars, keyListenVars, loop_pc, loop_error, dirty,
                       last_poll, windowVars, startVars, layoutVars>>

\* the message that arrives: two bytes, one of them below 0x10
EventPayloads == {<<10, 65>>}

EventMessageStep ==
    \E payload \in EventPayloads :
        /\ Len(messages) < MaxMessages
        /\ OnMessage(payload)
        /\ painted' = NotPainted
        /\ UNCHANGED <<listenVars, keyListenVars, loop_pc, loop_error, dirty,
                       last_poll, windowVars, startVars, layoutVars>>

\* the log is painted once between two events
EventPaintStep ==
    \E size \in EventPaintSizes, overflow_checks \in BOOLEAN :
        /\ loop_state = "Running"
        /\ painted = NotPainted
        /\ MessagesPaint(size, overflow_checks)
        /\ UNCHANGED <<inputVars, messageVars, threadVars, windowVars, startVars, layoutVars>>

NextEvents ==
    \/ EventKeyStep
    \/ EventMessageStep
    \/ EventPaintStep

SpecEvents == Init /\ [][NextEvents]_vars

(***************************************************************************)
(* Spec: the program main starts: the two reader threads, their channels   *)
(* and the event loop.                                                     *)
(***************************************************************************)
\* the socket delivers at most MaxReads non-empty reads
ListenStep ==
    \E result \in ReadResults :
        /\ ReadOutcome(result) = "data" => Len(reads) < MaxReads
        /\ Listen(result)
        /\ UNCHANGED <<inputVars, messageVars, painted, panicked, keyListenVars,
                       loopVars, windowVars, startVars, layoutVars>>

\* the keyboard delivers at most MaxKeys keys
InputListenStep ==
    \E result \in ReadKeyResults :
        /\ result.kind = "Some" => keys_read < MaxKeys
        /\ InputListen(result)
        /\ UNCHANGED <<inputVars, messageVars, painted, panicked, listenVars,
                       loopVars, windowVars, startVars, layoutVars>>

PollKeyStep ==
    \E write_ok \in BOOLEAN : PollKey(write_ok)

Next ==
    \/ ListenStep
    \/ InputListenStep
    \/ PollMessage
    \/ PollKeyStep
    \/ Repaint
    \/ Sleep

Spec == Init /\ [][Next]_vars

(***************************************************************************)
(* SpecWindow: Window::run on its own keyboard and socket.                 *)
(***************************************************************************)
otherVars == <<inputVars, messageVars, painted, threadVars, startVars, layoutVars>>

RunDrawTitleStep ==
    \E peer_ok \in BOOLEAN, size \in WindowSizes, flush_ok \in BOOLEAN :
        /\ RunDrawTitle(peer_ok, size, flush_ok)
        /\ UNCHANGED otherVars

RunDrawMessagesEmptyStep ==
    \E size \in WindowSizes, flush_ok \in BOOLEAN, overflow_checks \in BOOLEAN :
        /\ RunDrawMessagesEmpty(size, flush_ok, overflow_checks)
        /\ UNCHANGED otherVars

RunDrawInputStep ==
    \E size \in WindowSizes, flush_ok \in BOOLEAN :
        /\ RunDrawInput(size, flush_ok)
        /\ UNCHANGED otherVars

RunLoopTopStep ==
    /\ RunLoopTop
    /\ UNCHANGED otherVars

\* the keyboard delivers at most MaxKeys keys
UserInputStep ==
    \E result \in WindowKeyResults, size \in WindowSizes,
       draw_size \in WindowSizes, flush_ok \in BOOLEAN :
        /\ result.kind = "Some" => w_keys_read < MaxKeys
        /\ UserInput(result, size, draw_size, flush_ok)
        /\ UNCHANGED otherVars

\* the socket delivers at most MaxReads non-empty reads
RemoteInputStep ==
    \E result \in ReadResults, flush_ok \in BOOLEAN :
        /\ ReadOutcome(result) = "data" => Len(w_reads) < MaxReads
        /\ RemoteInput(result, flush_ok)
        /\ UNCHANGED otherVars

NextWindow ==
    \/ RunDrawTitleStep
    \/ RunDrawMessagesEmptyStep
    \/ RunDrawInputStep
    \/ RunLoopTopStep
    \/ UserInputStep
    \/ RemoteInputStep

SpecWindow == Init /\ [][NextWindow]_vars

\* SpecWindow with the progress its loop can count on: run is one thread that
\* is always scheduled, Terminal::size, the flushes and the non-blocking key
\* read return; connection.read is a read of the TcpStream connect returned,
\* which nothing has set non-blocking, and it returns only once the peer
\* sends, closes or the stream fails
SpecWindowLive ==
    /\ SpecWindow
    /\ WF_vars(RunDrawTitleStep)
    /\ WF_vars(RunDrawMessagesEmptyStep)
    /\ WF_vars(RunDrawInputStep)
    /\ WF_vars(RunLoopTopStep)
    /\ WF_vars(UserInputStep)

(***************************************************************************)
(* SpecConnect: connect on every command line.                             *)
(***************************************************************************)
InitConnect ==
    /\ InputNew
    /\ MessagesNew
    /\ painted = NotPainted
    /\ panicked = FALSE
    /\ SpawnThreads
    /\ LoopNew
    /\ WindowNew
    /\ args \in CommandLines
    /\ connect_result = NotConnected
    /\ LayoutNew

ConnectStep ==
    \E dial_ok \in BOOLEAN :
        /\ Connect(dial_ok)
        /\ UNCHANGED <<inputVars, messageVars, painted, threadVars, windowVars,
                       layoutVars>>

NextConnect ==
    \/ ConnectStep

SpecConnect == InitConnect /\ [][NextConnect]_vars

(***************************************************************************)
(* SpecLayout: the draws Window::run starts with, on a terminal of every   *)
(* height that is not resized meanwhile and takes every write.             *)
(***************************************************************************)
\* a width that holds the title and the dividers, and one below the title's
\* 46 characters
LayoutWidths == {40, 80}
LayoutSizes == {TermSize(w, h) : w \in LayoutWidths, h \in 0..MaxHeight}

InitLayout ==
    /\ InputNew
    /\ MessagesNew
    /\ painted = NotPainted
    /\ panicked = FALSE
    /\ SpawnThreads
    /\ LoopNew
    /\ WindowNew
    /\ Started
    /\ term_size \in LayoutSizes
    /\ rows_drawn = NoRows

layoutFrame == <<inputVars, messageVars, painted, threadVars, startVars, term_size>>

LayoutTitleStep ==
    /\ RunDrawTitle(TRUE, term_size, TRUE)
    /\ rows_drawn' = IF DrawTitle(TRUE, term_size, TRUE).outcome = "Ok"
                     THEN [rows_drawn EXCEPT !.title = TitleRows]
                     ELSE rows_drawn
    /\ UNCHANGED layoutFrame

LayoutGutterStep ==
    \E overflow_checks \in BOOLEAN :
        /\ RunDrawMessagesEmpty(term_size, TRUE, overflow_checks)
        /\ rows_drawn' =
             IF DrawMessagesEmpty(term_size, TRUE, overflow_checks).outcome = "Ok"
             THEN [rows_drawn EXCEPT !.gutter = GutterRows(term_size.height)]
             ELSE rows_drawn
        /\ UNCHANGED layoutFrame

LayoutInputStep ==
    /\ RunDrawInput(term_size, TRUE)
    /\ rows_drawn' = IF DrawInput(term_size, TRUE).outcome = "Ok"
                     THEN [rows_drawn EXCEPT !.input = InputRows(term_size.height)]
                     ELSE rows_drawn
    /\ UNCHANGED layoutFrame

NextLayout ==
    \/ LayoutTitleStep
    \/ LayoutGutterStep
    \/ LayoutInputStep

SpecLayout == InitLayout /\ [][NextLayout]_vars

(***************************************************************************)
(* Claims about the Input state machine (checked under SpecInput).         *)
(***************************************************************************)
\* the bytes a sequence of hex digits spells, pair by pair, high nibble first
PairBytes(digits) ==
    [i \in 1..(Len(digits) \div 2) |->
        16 * DigitValue(digits[2 * i - 1]) + DigitValue(digits[2 * i])]

DrainedEven == /\ input_call.op = "drain"
               /\ Len(HexDigitsOf(input_call.before.input)) % 2 = 0
DrainedOdd == /\ input_call.op = "drain"
              /\ Len(HexDigitsOf(input_call.before.input)) % 2 = 1

\* C1: when the buffer's hex digits (whitespace discarded) number 2n,
\* drain_user_message returns exactly n bytes, byte i being
\* 16 * value(digit 2i-1) + value(digit 2i), and leaves the buffer empty with
\* cursor_position = 0 and scroll_offset = 0.
C1_CommitDecodesEvenInput ==
    DrainedEven =>
        LET digits == HexDigitsOf(input_call.before.input) IN
        /\ input_call.ret.some
        /\ Len(input_call.ret.bytes) = Len(digits) \div 2
        /\ input_call.ret.bytes = PairBytes(digits)
        /\ input = <<>>
        /\ cursor_position = 0
        /\ scroll_offset = 0

\* a buffer of digits of both cases with whitespace in between was committed
C1_Witness ==
    /\ DrainedEven
    /\ input_call.before.input = <<"a", " ", "F", " ">>
    /\ input_call.ret.bytes = <<175>>
    /\ input = <<>>

\* C2: when the buffer's hex digits number an odd count, drain_user_message
\* returns nothing and leaves input, cursor_position and scroll_offset as
\* they were; a further drain_user_message is rejected in the same way and
\* changes nothing.
C2_OddCommitRejected ==
    /\ [](DrainedOdd =>
            /\ ~input_call.ret.some
            /\ InputState = input_call.before)
    /\ [][(DrainedOdd /\ input_call'.op = "drain") =>
            /\ input_call' = input_call
            /\ UNCHANGED <<input, cursor_position, scroll_offset>>]_vars

\* an odd number of digits around a space was rejected, after a Home key
C2_Witness ==
    /\ DrainedOdd
    /\ input = <<"4", " ", "a", "F">>
    /\ cursor_position = 2
    /\ ~input_call.ret.some

\* C4: after any sequence of handle_key and drain_user_message calls from
\* the empty buffer, cursor_position <= Len(input) and
\* scroll_offset <= Len(input).
C4_CursorWithinBuffer ==
    /\ cursor_position <= Len(input)
    /\ scroll_offset <= Len(input)

\* keys were typed, Home pressed and a key typed again; and the buffer was
\* committed and typed into again
C4_Witness ==
    /\ input_call.op = "handle_key"
    /\ Len(input) = 3
    /\ cursor_position = 1

\* s without its i-th character
RemoveAt(s, i) == SubSeq(s, 1, i - 1) \o SubSeq(s, i + 1, Len(s))

\* C16: handle_key(Backspace) returns normally; on an empty buffer it leaves
\* input, cursor_position and scroll_offset as they were; on a non-empty
\* buffer with cursor_position > 0 it removes the character before the
\* cursor and decrements cursor_position by one.
C16_BackspaceEdits ==
    (input_call.op = "handle_key" /\ input_call.key = Key("Backspace")) =>
        LET before == input_call.before IN
        /\ ~panicked
        /\ before.input = <<>> => InputState = before
        /\ (before.input # <<>> /\ before.cursor_position > 0) =>
              /\ input = RemoveAt(before.input, before.cursor_position)
              /\ cursor_position = before.cursor_position - 1

\* the keys handle_key stores a character for
StoresACharacter(key) ==
    key.kind = "Char" /\ (IsAsciiHexdigit(key.c) \/ IsWhitespace(key.c))

HandledKey == input_call.op = "handle_key"

LocalCount == Cardinality({i \in DOMAIN messages : messages[i].origin = "Local"})

\* C3: Messages::paint returns exactly size.height rows, each of exactly
\* size.width characters, for every log, payload and size.
C3_PaintGridExact ==
    painted.op = "messages" =>
        /\ ~painted.panic
        /\ Len(painted.rows) = painted.size.height
        /\ \A i \in DOMAIN painted.rows : Len(painted.rows[i]) = painted.size.width

\* C5: handle_message of a Local message attempts the write before it
\* stores, and the message is stored whether the write succeeds or fails:
\* every write attempt has its message in the log, at the position the log
\* had reached when the write was made, and the call returns normally.
C5_LocalStoredWhateverTheWrite ==
    /\ write_count = LocalCount
    /\ write_count > 0 =>
          /\ last_write.stored_before < Len(messages)
          /\ messages[last_write.stored_before + 1] =
                [origin |-> "Local", payload |-> last_write.payload]
    /\ (painted = NotPainted /\ write_count > 0 /\ ~last_write.ok) => ~panicked

\* a Local message whose write failed is the newest message of the log
C5_Witness ==
    /\ write_count = 2
    /\ ~last_write.ok
    /\ last_write.payload = <<10, 65>>
    /\ Len(messages) = 3
    /\ messages[3] = [origin |-> "Local", payload |-> <<10, 65>>]
    /\ painted = NotPainted

\* the row vec_to_line draws for a message
RowOf(width, m) == VecToLine(width, OriginPrefix(m.origin), m.payload, RowSuffix)

\* C6: the rows of Messages::paint show the most recent size.height messages
\* in arrival order: the oldest displayed message on row 1, the newest on
\* the last message row.
C6_RowsInArrivalOrder ==
    (painted.op = "messages" /\ ~painted.panic) =>
        LET n == Len(messages)
            k == IF painted.size.height < n THEN painted.size.height ELSE n
        IN \A i \in 1..k :
              painted.rows[i] = RowOf(painted.size.width, messages[n - k + i])

(***************************************************************************)
(* Claims about the Title and Input painters and the cursor column         *)
(* (checked under SpecPaint).                                              *)
(***************************************************************************)
Min(a, b) == IF a < b THEN a ELSE b

\* the number of characters of the buffer that Input::paint has drawn
VisibleLength ==
    Min(Len(input) - scroll_offset, MaxInputLength(painted.size.width))

InputPainted == painted.op = "input" /\ ~painted.panic

\* C14: Title::paint and Input::paint return exactly size.height rows, each
\* of exactly size.width characters, for every buffer and every size; the
\* Title's row 0 is the banner cut or padded to the width and its row 1 the
\* divider filled with U+2500; the Input's row 0 is the divider and its
\* row 1 the prompt and the visible input, padded to the width.
C14_TitleAndInputGridsExact ==
    painted.op \in {"title", "input"} =>
        LET size == painted.size
            rows == painted.rows
        IN
        /\ ~painted.panic
        /\ Len(rows) = size.height
        /\ \A i \in DOMAIN rows : Len(rows[i]) = size.width
        /\ (painted.op = "title" /\ size.height >= 1) =>
              rows[1] = Resize(TitleText, size.width, " ")
        /\ (painted.op = "title" /\ size.height >= 2) =>
              rows[2] = Resize(TitleSidebar, size.width, "BOX_H")
        /\ (painted.op = "input" /\ size.height >= 1) =>
              rows[1] = Resize(InputSidebar, size.width, "BOX_H")
        /\ (painted.op = "input" /\ size.height >= 2) =>
              rows[2] = Resize(InputPrompt \o input, size.width, " ")

\* C18: the column get_cursor_x_position reports is
\* p + min(cursor_position, visible length) - 1, p being the prompt's width
\* in characters, in every state the Input painter has drawn.
C18_CursorColumnFormula ==
    (InputPainted /\ painted.size.height >= 2) =>
        GetCursorXPosition =
            Len(InputPrompt) + Min(cursor_position, VisibleLength) - 1

\* C19: after any keys, also more characters than the input row has room
\* for, the cursor is on the screen: its column is below the width, and the
\* character at its left is among the characters Input::paint has drawn.
C19_CursorStaysOnScreen ==
    (InputPainted /\ painted.size.height >= 2) =>
        /\ GetCursorXPosition < painted.size.width
        /\ cursor_position > 0 =>
              /\ cursor_position > scroll_offset
              /\ cursor_position - scroll_offset <= VisibleLength

(***************************************************************************)
(* Claims about the Connection Reader, its channel and the event loop      *)
(* (checked under Spec).                                                   *)
(***************************************************************************)
RemotePayloads ==
    LET remote == SelectSeq(messages, LAMBDA m : m.origin = "Remote")
    IN [i \in DOMAIN remote |-> remote[i].payload]

IsPrefix(s, t) == Len(s) <= Len(t) /\ s = SubSeq(t, 1, Len(s))

\* C7: every read of n >= 1 bytes makes exactly one message of exactly
\* those bytes, nothing carried over from an earlier read; the Remote
\* messages of the store followed by the messages still in the channel are
\* the payloads read, in the order the reads completed, as long as the
\* event loop holds its Receiver, and a prefix of them in that order after.
C7_ReadsBecomeMessagesInOrder ==
    /\ sends = Len(reads)
    /\ listen_message = <<>>
    /\ IsPrefix(RemotePayloads \o message_chan, reads)
    /\ ReceiverAlive => RemotePayloads \o message_chan = reads

\* two reads completed; the first is in the store, the second in the channel
C7_Witness ==
    /\ reads = <<(<<10, 65>>), (<<171>>)>>
    /\ RemotePayloads = <<(<<10, 65>>)>>
    /\ message_chan = <<(<<171>>)>>

WouldBlockResult == [kind |-> "WouldBlock", bytes |-> <<>>]

\* C8: a would-block read sends nothing and leaves the Connection Reader
\* running; the reader has returned exactly when its latest read returned
\* zero bytes or an error other than would-block; a send that fails because
\* the Receiver is gone does not end it.
C8_ReaderEndsOnEofOrError ==
    /\ [](/\ (listen_pc = "returned") <=> (last_read \in {"eof", "error"})
          /\ last_read = "would_block" => listen_pc = "running"
          /\ (last_send = "failed" /\ last_read = "data") => listen_pc = "running")
    /\ [][Listen(WouldBlockResult) =>
            UNCHANGED <<listen_pc, listen_message, reads, sends, last_send,
                        message_chan>>]_vars

\* the reader is running after a read that would block, having lost a send
\* to a Receiver that was gone
C8_Witness ==
    /\ last_read = "would_block"
    /\ listen_pc = "running"
    /\ last_send = "failed"
    /\ Len(reads) = 2

PolledAfterEof == last_read = "eof" /\ last_poll.reader_returned

OrderKeys == {CharKey("4"), CharKey(" "), CharKey("g"), CharKey("LF"),
              Key("Home"), Key("Backspace"), CtrlKey("c")}
OrderPayloads == {<<171>>}

\* the outcomes of the socket write a key can lead to: only Enter writes
WriteOutcomes(key) == IF key = CharKey("LF") THEN BOOLEAN ELSE {TRUE}

\* the world after the key and then the message, and after the message and
\* then the key
KeyThenMessage(key, payload, write_ok) ==
    AfterMessage(AfterKey(World, key, write_ok), payload)
MessageThenKey(key, payload, write_ok) ==
    AfterKey(AfterMessage(World, payload), key, write_ok)

\* Enter on a buffer of an even number of digits
AcceptedSubmit(key) ==
    key = CharKey("LF") /\ Len(HexDigitsOf(input)) % 2 = 0

HandlersAgree ==
    /\ input_call.op = "handle_key" =>
          /\ InputState = HandleKeyOn(input_call.before, input_call.key).buffer
          /\ panicked = ~HandleKeyOn(input_call.before, input_call.key).returned
    /\ input_call.op = "drain" =>
          DrainUserMessageOn(input_call.before) =
             [buffer |-> InputState, ret |-> input_call.ret]
    /\ write_count > 0 =>
          SubSeq(messages, 1, last_write.stored_before + 1) =
             HandleMessageOn(SubSeq(messages, 1, last_write.stored_before),
                             "Local", last_write.payload, last_write.ok)

TwoDigitHex(byte) == <<LowerHexDigit(byte \div 16), LowerHexDigit(byte % 16)>>

RECURSIVE SpacedHex(_)
SpacedHex(bytes) ==
    IF bytes = <<>> THEN <<>>
    ELSE IF Len(bytes) = 1 THEN TwoDigitHex(bytes[1])
    ELSE TwoDigitHex(Head(bytes)) \o <<" ">> \o SpacedHex(Tail(bytes))

ClaimedPrefix(origin) ==
    IF origin = "Local"
    THEN <<" ", " ", "L", "O", "C", "A", "L", " ", "BOX_V", " ">>
    ELSE <<" ", "R", "E", "M", "O", "T", "E", " ", "BOX_V", " ">>

\* the row is the prefix of m's origin, then m's bytes in spaced hex, then
\* spaces only; or, where the width leaves the dump less room than it
\* needs, that text cut to the room and one space
RowShows(row, m, width) ==
    LET want == ClaimedPrefix(m.origin) \o SpacedHex(m.payload)
        room == width - 13
    IN IF 3 * Len(m.payload) <= room
       THEN /\ IsPrefix(want, row)
            /\ \A i \in (Len(want) + 1)..Len(row) : row[i] = " "
       ELSE row = SubSeq(want \o <<" ">>, 1, 10 + room) \o <<" ">>

C10_QuittingIsTerminal ==
    /\ [](w_pc = "run" => ~should_quit)
    /\ [][should_quit =>
            /\ UNCHANGED <<should_quit, w_messages, w_reads, w_keys_read,
                           w_user_input, w_scroll_offset>>
            /\ w_pc' = "returned" =>
                  /\ w_result' = "Ok"
                  /\ screen' = {}
                  /\ term_cursor' = Pos(0, 0)]_vars

\* C11: once Ctrl-C has been read (should_quit is set), run comes to its end
\* whatever the socket does, also when the peer never sends another byte:
\* the loop waits for nothing (checked under SpecWindowLive).
C11_CtrlCReachesQuitting ==
    should_quit ~> (w_pc \in {"returned", "unwound"})

EnterKey == [kind |-> "Some", key |-> CharKey("LF")]

\* C12: when user_input reads Enter while the buffer holds an even number
\* of hex digits (here none: no key can put a digit in user_input), it
\* returns normally, exactly one Local message of the decoded bytes is
\* appended to messages and the buffer is empty.
C12_EnterCommits ==
    [][(\E size \in WindowSizes, draw_size \in WindowSizes, flush_ok \in BOOLEAN :
            UserInput(EnterKey, size, draw_size, flush_ok)) =>
          /\ ~panicked'
          /\ w_messages' = Append(w_messages, [origin |-> "Local",
                                               payload |-> <<>>])
          /\ w_user_input' = <<>>]_vars

\* C20: a loop turn in which a Remote message was appended ends with the
\* log painted: whenever run is back at the top of its loop with messages
\* stored, the log region has been drawn on the screen.
C20_ChangesAreRepainted ==
    (w_pc = "loop_top" /\ w_messages # <<>>) => "log" \in screen

(***************************************************************************)
(* Claims about the rows Window::run draws on (checked under SpecLayout).  *)
(***************************************************************************)
\* run has drawn the title, the gutter and the input and is at its loop
LaidOut == w_pc = "loop_top"

IsEmptySpan(span) == span.last < span.first
DisjointSpans(a, b) ==
    IsEmptySpan(a) \/ IsEmptySpan(b) \/ a.last < b.first \/ b.last < a.first
InsideScreen(span, height) ==
    IsEmptySpan(span) \/ (0 <= span.first /\ span.last <= height - 1)

\* C22: on a terminal of any height, once draw_title, draw_messages_empty
\* and draw_input have drawn, the rows of the title, of the log gutter and
\* of the input region are pairwise disjoint and lie inside rows
\* 0..height-1.
C22_RegionsDisjointAndOnScreen ==
    LaidOut =>
        /\ DisjointSpans(rows_drawn.title, rows_drawn.gutter)
        /\ DisjointSpans(rows_drawn.title, rows_drawn.input)
        /\ DisjointSpans(rows_drawn.gutter, rows_drawn.input)
        /\ InsideScreen(rows_drawn.title, term_size.height)
        /\ InsideScreen(rows_drawn.gutter, term_size.height)
        /\ InsideScreen(rows_drawn.input, term_size.height)

\* C23: on a terminal of any width and height, none of the draws
\* Window::run starts with fails: no width or height subtraction of
\* draw_title, draw_messages_empty or draw_input goes below zero, and run
\* does not unwind.
C23_DrawsNeverUnderflow == ~panicked

(***************************************************************************)
(* Claims about connect (checked under SpecConnect).                       *)
(***************************************************************************)
\* C17: started with fewer than 2 positional arguments (none, or an address
\* only), connect returns NotEnoughArguments without parsing an argument and
\* without connecting; it does not panic on a missing argument.
C17_TooFewArgumentsRejected ==
    (connect_result # NotConnected /\ Len(args) - 1 < 2) =>
        /\ connect_result.outcome = "NotEnoughArguments"
        /\ ~connect_result.parsed
        /\ ~connect_result.dialled

====
